---- MODULE Spec2Model ----
(***************************************************************************)
(* butlerd's dispatch core (src/butlerd/router.go): the Router's method    *)
(* tables, Dispatch with its panic containment, error classification and   *)
(* reply encoding, the per-call RequestContext (progress tracker,          *)
(* notification interceptors, pooled storage connections) and the          *)
(* CancelFuncs registry.                                                   *)
(*                                                                         *)
(* Strings are sequences of tokens, so that "the message embeds the method *)
(* name" or "the stack contains the description" is something to check.    *)
(* Go's nil is a value of its own in every type that has one.              *)
(***************************************************************************)
EXTENDS Integers, Sequences, FiniteSets, TLC

\* ------------------------------------------------------------------ bounds
\* how many times one callback is handed to CancelFuncs.Add
MaxAdds == 1
\* how many connections the storage pool was opened with
PoolSize == 2

\* ----------------------------------------------------------------- domains
\* goroutines in which the transport runs Dispatch
Calls == {"g1", "g2"}
\* method names on the wire
Methods == {"m1", "m2"}
\* request handlers and notification handlers (function values)
RequestHandlers == {"h1", "h2"}
NotificationHandlerFns == {"n1", "n2"}
\* handler results
NilResult == "nil"
Results == {NilResult, "r1"}
\* progress fractions in tenths, byte totals
Alphas == {0, 5}
Totals == {0, 100}
\* outbound notification methods and the interceptors a handler installs
NotifyMethods == {"Progress", "Log"}
\* call identifiers and cancellation callbacks
Ids == {"abc"}
Callbacks == {"f", "g"}
Interceptors == {"i1"}

\* ------------------------------------------------------ wire error codes
\* jsonrpc2.CodeMethodNotFound and jsonrpc2.CodeInternalError (JSON-RPC 2.0)
CodeMethodNotFound == -32601
CodeInternalError == -32603
\* the daemon's own codes: two fixed numbers unlike each other and the rest
CodeNetworkDisconnected == 9000
CodeOperationCancelled == 499

\* Code.Error() of the two daemon codes: one fixed text per code
CodeText(code) ==
    IF code = CodeNetworkDisconnected THEN <<"network disconnected">>
    ELSE IF code = CodeOperationCancelled THEN <<"operation cancelled">>
    ELSE <<"code">>

\* ------------------------------------------------------------ error values
\* map[string]interface{}: nil, or a map from keys to values
NilData == [isNil |-> TRUE]
MapData(m) == [isNil |-> FALSE, m |-> m]
EmptyMap == [k \in {} |-> <<>>]
\* a value encoding/json refuses (a channel, a func, NaN)
Unencodable == <<"chan">>

\* an error: its Error() text, the protocol-error capability of its cause
\* (RpcErrorCode/RpcErrorMessage/RpcErrorData), whether neterr recognises it,
\* whether its root cause is werrors.ErrCancelled, whether it carries a stack
NoRpc == [has |-> FALSE]
Rpc(code, message, data) ==
    [has |-> TRUE, code |-> code, message |-> message, data |-> data]
MkErr(text, rpc, net, cancelled) ==
    [isNil |-> FALSE, text |-> text, rpc |-> rpc, net |-> net,
     cancelled |-> cancelled, stack |-> FALSE]
NilErr == [isNil |-> TRUE]

PlainErr == MkErr(<<"disk full">>, NoRpc, FALSE, FALSE)
NetErr == MkErr(<<"connection reset">>, NoRpc, TRUE, FALSE)
ErrCancelled == MkErr(<<"cancelled">>, NoRpc, FALSE, TRUE)
NetCancelledErr == MkErr(<<"dial", "cancelled">>, NoRpc, TRUE, TRUE)
ApiErr(data, net, cancelled) ==
    MkErr(<<"api refused">>, Rpc(4000, <<"refused">>, data), net, cancelled)

\* the failures a handler returns or panics with
ErrValues ==
    {PlainErr, NetErr, ErrCancelled, NetCancelledErr,
     ApiErr(MapData(("detail" :> <<"d1">>) @@ ("stack" :> <<"mine">>)), FALSE, FALSE),
     ApiErr(MapData("detail" :> Unencodable), FALSE, FALSE),
     ApiErr(NilData, TRUE, FALSE),
     ApiErr(NilData, FALSE, TRUE)}

\* values a handler panics with: an error, a string, an integer, nil
PanicErr(e) == [kind |-> "error", e |-> e]
PanicStr(s) == [kind |-> "string", s |-> s]
PanicInt(n) == [kind |-> "int", n |-> n]
PanicNil == [kind |-> "nil"]
NoPanic == [kind |-> "none"]
PanicValues ==
    {PanicErr(e) : e \in ErrValues} \cup {PanicStr("boom"), PanicInt(7), PanicNil}

\* runtime.PanicNilError, what recover() yields for panic(nil) from Go 1.21 on
PanicNilError == MkErr(<<"panic called with nil argument">>, NoRpc, FALSE, FALSE)

\* recover(): the panic value; for panic(nil) it is nil (before Go 1.21, or
\* with GODEBUG=panicnil=1) or a *runtime.PanicNilError, as the build decides
Recovered(v) ==
    IF v.kind = "nil" THEN {PanicNil, PanicErr(PanicNilError)} ELSE {v}

\* fmt's %v of a non-error panic value
Digit(n) == <<"0", "1", "2", "3", "4", "5", "6", "7", "8", "9">>[n + 1]
SprintfV(v) ==
    IF v.kind = "string" THEN v.s
    ELSE IF v.kind = "int" THEN Digit(v.n)
    ELSE "<nil>"

\* errors.WithStack(e): same cause, same text, a stack attached
WithStack(e) == [e EXCEPT !.stack = TRUE]
\* errors.Errorf("panic: %v", r)
PanicErrorf(v) ==
    [MkErr(<<"panic: ", SprintfV(v)>>, NoRpc, FALSE, FALSE) EXCEPT !.stack = TRUE]
\* err.Error()
ErrorText(e) == e.text
\* fmt.Sprintf("%+v", err): the text, then the stack trace when there is one
SprintfPlusV(e) == e.text \o (IF e.stack THEN <<"stacktrace">> ELSE <<>>)

Contains(s, tok) == \E i \in 1..Len(s) : s[i] = tok

\* ------------------------------------------------------- error classifier
\* AsButlerdError(err): does the failure expose the protocol-error capability
AsButlerdError(e) == e.rpc.has
\* neterr.IsNetworkError(err)
IsNetworkError(e) == e.net
\* errors.Cause(err) == werrors.ErrCancelled
CauseIsCancelled(e) == e.cancelled

\* the mutant of Classify: cancellation tested before the protocol capability
ClassifyCancelFirst(e) ==
    IF CauseIsCancelled(e) THEN
        [code |-> CodeOperationCancelled,
         message |-> CodeText(CodeOperationCancelled), data |-> NilData]
    ELSE IF AsButlerdError(e) THEN
        [code |-> e.rpc.code, message |-> e.rpc.message, data |-> e.rpc.data]
    ELSE IF IsNetworkError(e) THEN
        [code |-> CodeNetworkDisconnected,
         message |-> CodeText(CodeNetworkDisconnected), data |-> NilData]
    ELSE
        [code |-> CodeInternalError, message |-> ErrorText(e), data |-> NilData]

\* code, message and data of the reply to a failed request
Classify(e) ==
    IF AsButlerdError(e) THEN
        [code |-> e.rpc.code, message |-> e.rpc.message, data |-> e.rpc.data]
    ELSE IF IsNetworkError(e) THEN
        [code |-> CodeNetworkDisconnected,
         message |-> CodeText(CodeNetworkDisconnected), data |-> NilData]
    ELSE IF CauseIsCancelled(e) THEN
        [code |-> CodeOperationCancelled,
         message |-> CodeText(CodeOperationCancelled), data |-> NilData]
    ELSE
        [code |-> CodeInternalError, message |-> ErrorText(e), data |-> NilData]

\* data["stack"] and data["butlerVersion"] set on the map, which is made
\* first when the failure supplied none
AddDiagnostics(data, e, version) ==
    LET base == IF data.isNil THEN EmptyMap ELSE data.m
    IN  ("stack" :> SprintfPlusV(e)) @@ ("butlerVersion" :> <<version>>) @@ base

\* json.Marshal of the map: the members of a JSON object, or an error when a
\* value cannot be encoded
JsonString(v) == <<"json-string", v>>
Marshal(m) ==
    IF \E k \in DOMAIN m : m[k] = Unencodable
    THEN [ok |-> FALSE]
    ELSE [ok |-> TRUE, raw |-> {<<k, JsonString(m[k])>> : k \in DOMAIN m}]

\* the Data of the jsonrpc2.Error: nil unless marshalling succeeded
NilRaw == [isNil |-> TRUE]
RawData(m) ==
    LET j == Marshal(m)
    IN  IF j.ok THEN [isNil |-> FALSE, members |-> j.raw] ELSE NilRaw

\* the jsonrpc2.Error sent with ReplyWithError
ErrorReply(e, version) ==
    LET cl == Classify(e)
    IN  [kind |-> "error", code |-> cl.code, message |-> cl.message,
         data |-> RawData(AddDiagnostics(cl.data, e, version))]
\* what Reply sends
ResultReply(res) == [kind |-> "result", result |-> res]

\* &RpcError{Code, Message}: a failure with the protocol-error capability
RpcError(code, message) ==
    MkErr(<<"rpc error">>, Rpc(code, message, NilData), FALSE, FALSE)
\* the failure of a request whose method has no handler
MethodNotFoundErr(method) ==
    RpcError(CodeMethodNotFound, <<"Method '", method, "' not found">>)

\* the mutant of RecoverErr: every recovered value is formatted with "panic: %v"
RecoverErrFormatsAll(r) ==
    IF r.kind = "nil" THEN NilErr ELSE PanicErrorf(r)

\* the deferred recover() of Dispatch's inner function: the error it leaves
\* in err for the recovered value r (nil: nothing was recovered)
RecoverErr(r) ==
    IF r.kind = "nil" THEN NilErr
    ELSE IF r.kind = "error" THEN WithStack(r.e)
    ELSE PanicErrorf(r)

\* ------------------------------------------------------------------- state
VARIABLES
    Handlers,              \* Router.Handlers: method -> request handler
    NotificationHandlers,  \* Router.NotificationHandlers
    ButlerVersionString,   \* Router.ButlerVersionString
    dbPool,                \* Router.dbPool: the connections free in the pool
    Funcs,                 \* CancelFuncs.Funcs: identifier -> callback
    added,                 \* how many times each callback was handed to Add
    fired,                 \* how many times each callback was invoked
    crashed,               \* the runtime ended the process (fatal error)
    pc,                    \* each goroutine's place in Dispatch
    rc,                    \* the RequestContext of the call it dispatches
    last                   \* the operation that ran last and what it did

router == <<Handlers, NotificationHandlers, ButlerVersionString, dbPool>>
registry == <<Funcs, added, fired, crashed>>
vars == <<router, registry, pc, rc, last>>

\* progress.Tracker as far as the context uses it; nil when none is active
NilTracker == [isNil |-> TRUE]
NewTracker(initialProgress, totalBytes) ==
    [isNil |-> FALSE, progress |-> initialProgress, totalBytes |-> totalBytes,
     paused |-> FALSE]
\* notificationInterceptors: nil until the first InterceptNotification
NilInterceptors == [isNil |-> TRUE]
InterceptorMap(m) == [isNil |-> FALSE, m |-> m]

\* *sqlite.Conn: nil, or one of the connections the pool was opened with
NilConn == [isNil |-> TRUE]
Conn(i) == [isNil |-> FALSE, n |-> i]
Conns == {Conn(i) : i \in 1..PoolSize}

\* the context of a call: the message, the handler invoked, the tracker slot,
\* the interceptors, whether Dispatch wired the consumer's progress callbacks
\* and the operation (of CancelFuncs, or one that takes a pooled connection)
\* the handler is in the middle of
NoOp == [kind |-> "none"]
NoCtx ==
    [method |-> "none", notif |-> FALSE, handler |-> "none",
     tracker |-> NilTracker, interceptors |-> NilInterceptors, bridge |-> FALSE,
     op |-> NoOp]
\* the mutant of NewCtx: the progress callbacks are wired for every handler
NewCtxWired(method, notif, handler, bridge) ==
    [NoCtx EXCEPT !.method = method, !.notif = notif, !.handler = handler,
                  !.bridge = TRUE]
NewCtx(method, notif, handler, bridge) ==
    [NoCtx EXCEPT !.method = method, !.notif = notif, !.handler = handler,
                  !.bridge = bridge]

\* what an operation did: its events (notifications sent or intercepted,
\* warnings, log lines, panics), and for the step that ends a Dispatch the
\* outcome of the call
NoFin == [done |-> FALSE]
Fin(method, notif, invoked, panicked, res, e, replies) ==
    [done |-> TRUE, method |-> method, notif |-> notif, invoked |-> invoked,
     panicked |-> panicked, res |-> res, err |-> e, replies |-> replies]
NoValue == [none |-> TRUE]
\* a boolean an operation returns
Returned(b) == [none |-> FALSE, bool |-> b]
Op(c, op, arg, ret, emitted, fin) ==
    [call |-> c, op |-> op, arg |-> arg, ret |-> ret, emitted |-> emitted,
     fin |-> fin]

Wire(method, params) == [ev |-> "wire", method |-> method, params |-> params]
Intercepted(ni, method, params) ==
    [ev |-> "intercepted", by |-> ni, method |-> method, params |-> params]
Warnf == [ev |-> "warn"]
Errorf == [ev |-> "error-log"]
Panicked == [ev |-> "panic"]

\* NewRouter: empty tables
Init ==
    /\ Handlers = EmptyMap
    /\ NotificationHandlers = EmptyMap
    /\ ButlerVersionString = "v1"
    /\ dbPool = Conns
    /\ Funcs = EmptyMap
    /\ added = [f \in Callbacks |-> 0]
    /\ fired = [f \in Callbacks |-> 0]
    /\ crashed = FALSE
    /\ pc = [c \in Calls |-> "idle"]
    /\ rc = [c \in Calls |-> NoCtx]
    /\ last = Op("none", "NewRouter", <<>>, NoValue, <<>>, NoFin)

\* ------------------------------------------------------------ registration
\* the mutant of Bind: a second registration replaces the first
BindOverwrite(table, method, h) ==
    [panic |-> FALSE, table |-> (method :> h) @@ table]

\* the table after registering h under method, and whether that panicked
Bind(table, method, h) ==
    IF method \in DOMAIN table
    THEN [panic |-> TRUE, table |-> table]
    ELSE [panic |-> FALSE, table |-> (method :> h) @@ table]

Register(method, rh) ==
    LET b == Bind(Handlers, method, rh)
    IN  /\ ~crashed
        /\ Handlers' = b.table
        /\ last' = Op("none", "Register", <<method, rh>>, NoValue,
                      IF b.panic THEN <<Panicked>> ELSE <<>>, NoFin)
        /\ UNCHANGED <<NotificationHandlers, ButlerVersionString, dbPool, registry,
                       pc, rc>>

RegisterNotification(method, nh) ==
    LET b == Bind(NotificationHandlers, method, nh)
    IN  /\ ~crashed
        /\ NotificationHandlers' = b.table
        /\ last' = Op("none", "RegisterNotification", <<method, nh>>, NoValue,
                      IF b.panic THEN <<Panicked>> ELSE <<>>, NoFin)
        /\ UNCHANGED <<Handlers, ButlerVersionString, dbPool, registry, pc, rc>>

\* ---------------------------------------------------------------- Dispatch
\* the mutant of Replies: the test of req.Notif is missing
RepliesToAll(notif, res, e, version) ==
    IF e.isNil THEN <<ResultReply(res)>> ELSE <<ErrorReply(e, version)>>

\* the end of Dispatch once the inner function has left res and err: nothing
\* for a notification, Reply on success, ReplyWithError otherwise
Replies(notif, res, e, version) ==
    IF notif THEN <<>>
    ELSE IF e.isNil THEN <<ResultReply(res)>>
    ELSE <<ErrorReply(e, version)>>

\* "Error while replying" is logged when Reply itself fails
ReplyLog(notif, e, replyFails) ==
    IF ~notif /\ e.isNil /\ replyFails THEN <<Errorf>> ELSE <<>>

\* the mutant of Lookup: a request falls back on the notification table
LookupEitherTable(method, notif) ==
    IF method \in DOMAIN Handlers /\ ~notif THEN <<Handlers[method]>>
    ELSE IF method \in DOMAIN NotificationHandlers
         THEN <<NotificationHandlers[method]>> ELSE <<>>

\* the handler Dispatch finds for the message, <<>> when there is none
Lookup(method, notif) ==
    IF notif
    THEN IF method \in DOMAIN NotificationHandlers
         THEN <<NotificationHandlers[method]>> ELSE <<>>
    ELSE IF method \in DOMAIN Handlers THEN <<Handlers[method]>> ELSE <<>>

\* NewStateConsumer(&NewStateConsumerParams{Ctx, Conn}): whether it fails.
\* Dispatch hands it the context of the call and the wrapper it has just
\* made around the connection, which it accepts.
NewStateConsumerFails == FALSE

\* Dispatch up to the handler invocation: the consumer and the context are
\* built and the handler looked up. With a handler, the progress callbacks
\* are wired (for a request) and the handler starts. Without one, a request
\* is answered with "method not found" and a notification is dropped:
\* Dispatch is over. Without consumer Dispatch returns at once.
Dispatch(c, method, notif) ==
    /\ ~crashed
    /\ pc[c] = "idle"
    /\ LET h == Lookup(method, notif)
           e == IF notif THEN NilErr ELSE MethodNotFoundErr(method)
       IN  IF NewStateConsumerFails
           THEN /\ last' = Op(c, "Dispatch", <<method, notif>>, NoValue, <<>>,
                        Fin(method, notif, <<>>, NoPanic, NilResult, NilErr, <<>>))
                /\ UNCHANGED <<pc, rc>>
           ELSE IF h # <<>>
           THEN /\ pc' = [pc EXCEPT ![c] = "handler"]
                /\ rc' = [rc EXCEPT ![c] = NewCtx(method, notif, h[1], ~notif)]
                /\ last' = Op(c, "Dispatch", <<method, notif>>, NoValue, <<>>, NoFin)
           ELSE /\ last' = Op(c, "Dispatch", <<method, notif>>, NoValue, <<>>,
                        Fin(method, notif, <<>>, NoPanic, NilResult, e,
                            Replies(notif, NilResult, e, ButlerVersionString)))
                /\ UNCHANGED <<pc, rc>>
    /\ UNCHANGED <<router, registry>>

\* the mutant of Finish: Dispatch runs the handler under a lock of the Router
\* and answers once no other call is in its handler
FinishUnderLock(c, op, panicked, res, e, replyFails) ==
    /\ ~crashed
    /\ \A d \in Calls \ {c} : pc[d] = "idle"
    /\ pc' = [pc EXCEPT ![c] = "idle"]
    /\ rc' = [rc EXCEPT ![c] = NoCtx]
    /\ last' = Op(c, op, <<>>, NoValue, ReplyLog(rc[c].notif, e, replyFails),
            Fin(rc[c].method, rc[c].notif, <<rc[c].handler>>, panicked, res, e,
                Replies(rc[c].notif, res, e, ButlerVersionString)))
    /\ UNCHANGED <<router, registry>>

\* the rest of Dispatch after the handler left res and e
Finish(c, op, panicked, res, e, replyFails) ==
    /\ ~crashed
    /\ pc' = [pc EXCEPT ![c] = "idle"]
    /\ rc' = [rc EXCEPT ![c] = NoCtx]
    /\ last' = Op(c, op, <<>>, NoValue, ReplyLog(rc[c].notif, e, replyFails),
            Fin(rc[c].method, rc[c].notif, <<rc[c].handler>>, panicked, res, e,
                Replies(rc[c].notif, res, e, ButlerVersionString)))
    /\ UNCHANGED <<router, registry>>

\* the handler returns (a notification handler returns nothing)
Return(c, res, e, replyFails) ==
    /\ pc[c] = "handler"
    /\ rc[c].op = NoOp
    /\ rc[c].notif => (res = NilResult /\ e.isNil)
    /\ replyFails => (~rc[c].notif /\ e.isNil)
    /\ Finish(c, "return", NoPanic, res, e, replyFails)

\* the handler panics with v and recover() yields r
Panic(c, v, r, replyFails) ==
    /\ pc[c] = "handler"
    /\ rc[c].op = NoOp
    /\ r \in Recovered(v)
    /\ replyFails => (~rc[c].notif /\ RecoverErr(r).isNil)
    /\ Finish(c, "panic", v, NilResult, RecoverErr(r), replyFails)

\* ---------------------------------------------------------- RequestContext
\* a context operation of the running handler: the context and the record of
\* the operation change, nothing else does
CtxStep(c, ctx, op, arg, result, emitted) ==
    /\ ~crashed
    /\ pc[c] = "handler"
    /\ rc[c].op = NoOp
    /\ rc' = [rc EXCEPT ![c] = ctx]
    /\ last' = Op(c, op, arg, result, emitted, NoFin)
    /\ UNCHANGED <<router, registry, pc>>

\* the mutant of NotifyEvent: every notification goes to the transport
NotifyEventWire(ints, method, params) == Wire(method, params)

\* rc.Notify: the interceptor installed for the method is called instead of
\* the transport
NotifyEvent(ints, method, params) ==
    IF ~ints.isNil /\ method \in DOMAIN ints.m
    THEN Intercepted(ints.m[method], method, params)
    ELSE Wire(method, params)
\* who decides the error Notify returns: the interceptor, or Conn.Notify
NotifyResult(ints, method, ok) ==
    IF ~ints.isNil /\ method \in DOMAIN ints.m
    THEN [by |-> ints.m[method], ok |-> ok]
    ELSE [by |-> "conn", ok |-> ok]

Notify(c, method, params, ok) ==
    CtxStep(c, rc[c], "Notify", <<method, params>>,
            NotifyResult(rc[c].interceptors, method, ok),
            <<NotifyEvent(rc[c].interceptors, method, params)>>)

InterceptNotification(c, method, ni) ==
    LET m == IF rc[c].interceptors.isNil THEN EmptyMap ELSE rc[c].interceptors.m
    IN  CtxStep(c, [rc[c] EXCEPT !.interceptors = InterceptorMap((method :> ni) @@ m)],
                "InterceptNotification", <<method, ni>>, NoValue, <<>>)

StopInterceptingNotification(c, method) ==
    LET ints == rc[c].interceptors
        kept == IF ints.isNil THEN ints
                ELSE InterceptorMap([k \in DOMAIN ints.m \ {method} |-> ints.m[k]])
    IN  CtxStep(c, [rc[c] EXCEPT !.interceptors = kept],
                "StopInterceptingNotification", <<method>>, NoValue, <<>>)

\* the mutant of StartTracker: a second start replaces the tracker
StartTrackerAnew(t, initialProgress, totalBytes) ==
    [tracker |-> NewTracker(initialProgress, totalBytes),
     emitted |-> IF ~t.isNil THEN <<Warnf>> ELSE <<>>]

\* StartProgressWithInitialAndTotal on tracker slot t: the slot and the
\* warnings emitted
StartTracker(t, initialProgress, totalBytes) ==
    IF ~t.isNil
    THEN [tracker |-> t, emitted |-> <<Warnf>>]
    ELSE [tracker |-> NewTracker(initialProgress, totalBytes), emitted |-> <<>>]

StartProgressWithInitialAndTotal(c, variant, initialProgress, totalBytes) ==
    LET s == StartTracker(rc[c].tracker, initialProgress, totalBytes)
    IN  CtxStep(c, [rc[c] EXCEPT !.tracker = s.tracker], variant,
                <<initialProgress, totalBytes>>, NoValue, s.emitted)
StartProgressWithTotalBytes(c, variant, totalBytes) ==
    StartProgressWithInitialAndTotal(c, variant, 0, totalBytes)
StartProgress(c) ==
    StartProgressWithTotalBytes(c, "StartProgress", 0)

EndProgress(c) ==
    IF ~rc[c].tracker.isNil
    THEN CtxStep(c, [rc[c] EXCEPT !.tracker = NilTracker], "EndProgress", <<>>,
                 NoValue, <<>>)
    ELSE CtxStep(c, rc[c], "EndProgress", <<>>, NoValue, <<Warnf>>)

\* the "Progress" notification; eta and bps are the tracker's estimates
ProgressNotification(alpha) == [progress |-> alpha, eta |-> "eta", bps |-> "bps"]

\* the mutant of OnProgress: the notification is sent on the connection
OnProgressDirect(ctx, alpha) ==
    IF ctx.tracker.isNil
    THEN [ctx |-> ctx, emitted |-> <<>>]
    ELSE [ctx |-> [ctx EXCEPT !.tracker.progress = alpha],
          emitted |-> <<Wire("Progress", ProgressNotification(alpha))>>]

\* the callbacks Dispatch wires into the consumer for a request handler
OnProgress(ctx, alpha) ==
    IF ctx.tracker.isNil
    THEN [ctx |-> ctx, emitted |-> <<>>]
    ELSE [ctx |-> [ctx EXCEPT !.tracker.progress = alpha],
          emitted |-> <<NotifyEvent(ctx.interceptors, "Progress",
                                    ProgressNotification(alpha))>>]
OnPauseProgress(ctx) ==
    IF ~ctx.tracker.isNil THEN [ctx EXCEPT !.tracker.paused = TRUE] ELSE ctx
OnResumeProgress(ctx) ==
    IF ~ctx.tracker.isNil THEN [ctx EXCEPT !.tracker.paused = FALSE] ELSE ctx

\* the handler's signals on rc.Consumer: they reach the callbacks above when
\* Dispatch wired them, and nothing of the context otherwise
Progress(c, alpha) ==
    LET r == IF rc[c].bridge THEN OnProgress(rc[c], alpha)
             ELSE [ctx |-> rc[c], emitted |-> <<>>]
    IN  CtxStep(c, r.ctx, "progress", <<alpha>>, NoValue, r.emitted)
ProgressLabel(c) ==
    CtxStep(c, rc[c], "progressLabel", <<>>, NoValue, <<>>)
PauseProgress(c) ==
    CtxStep(c, IF rc[c].bridge THEN OnPauseProgress(rc[c]) ELSE rc[c],
            "pauseProgress", <<>>, NoValue, <<>>)
ResumeProgress(c) ==
    CtxStep(c, IF rc[c].bridge THEN OnResumeProgress(rc[c]) ELSE rc[c],
            "resumeProgress", <<>>, NoValue, <<>>)

\* -------------------------------------------------------------- CancelFuncs
\* The handler calls rc.CancelFuncs.Add, Remove or Call; the operation then
\* runs one map access at a time. Nothing guards the map: accesses of other
\* goroutines can fall between the lookup, the callback and the delete of
\* Call, and two accesses at once, one of them a write, are a data race.
Fired(f) == [ev |-> "fired", f |-> f]

\* the handler enters an operation of the registry
Enter(c, op) ==
    /\ ~crashed
    /\ pc[c] = "handler"
    /\ rc[c].op = NoOp
    /\ rc' = [rc EXCEPT ![c].op = op]
    /\ last' = Op(c, "enter", <<op.kind, op.id>>, NoValue, <<>>, NoFin)
    /\ UNCHANGED <<router, pc>>

EnterAdd(c, id, f) ==
    /\ added[f] < MaxAdds
    /\ added' = [added EXCEPT ![f] = @ + 1]
    /\ Enter(c, [kind |-> "Add", id |-> id, f |-> f, stage |-> "write"])
    /\ UNCHANGED <<Funcs, fired, crashed>>
EnterRemove(c, id) ==
    /\ Enter(c, [kind |-> "Remove", id |-> id, stage |-> "write"])
    /\ UNCHANGED registry
EnterCall(c, id) ==
    /\ Enter(c, [kind |-> "Call", id |-> id, f |-> "none", stage |-> "lookup"])
    /\ UNCHANGED registry

\* the operation of goroutine c is over: it returns result
Leave(c, name, result, emitted) ==
    /\ rc' = [rc EXCEPT ![c].op = NoOp]
    /\ last' = Op(c, name, <<rc[c].op.id>>, result, emitted, NoFin)

InOp(c, kind, stage) ==
    /\ ~crashed
    /\ pc[c] = "handler"
    /\ rc[c].op.kind = kind
    /\ rc[c].op.stage = stage

\* cf.Funcs[id] = f
Add(c) ==
    /\ InOp(c, "Add", "write")
    /\ Funcs' = (rc[c].op.id :> rc[c].op.f) @@ Funcs
    /\ Leave(c, "Add", NoValue, <<>>)
    /\ UNCHANGED <<router, added, fired, crashed, pc>>

\* the mutant of Delete: the entry stays
DeleteNothing(m, id) == m

\* the map without the entry of id
Delete(m, id) == [k \in DOMAIN m \ {id} |-> m[k]]

\* delete(cf.Funcs, id)
Remove(c) ==
    /\ InOp(c, "Remove", "write")
    /\ Funcs' = Delete(Funcs, rc[c].op.id)
    /\ Leave(c, "Remove", NoValue, <<>>)
    /\ UNCHANGED <<router, added, fired, crashed, pc>>

\* f, ok := cf.Funcs[id]; without entry Call returns false
CallLookup(c) ==
    /\ InOp(c, "Call", "lookup")
    /\ IF rc[c].op.id \in DOMAIN Funcs
       THEN /\ rc' = [rc EXCEPT ![c].op.stage = "invoke",
                                ![c].op.f = Funcs[rc[c].op.id]]
            /\ last' = Op(c, "Call.lookup", <<rc[c].op.id>>, NoValue, <<>>, NoFin)
       ELSE Leave(c, "Call", Returned(FALSE), <<>>)
    /\ UNCHANGED <<router, registry, pc>>

\* f()
CallInvoke(c) ==
    /\ InOp(c, "Call", "invoke")
    /\ fired' = [fired EXCEPT ![rc[c].op.f] = @ + 1]
    /\ rc' = [rc EXCEPT ![c].op.stage = "delete"]
    /\ last' = Op(c, "Call.invoke", <<rc[c].op.id>>, NoValue,
                  <<Fired(rc[c].op.f)>>, NoFin)
    /\ UNCHANGED <<router, Funcs, added, crashed, pc>>

\* delete(cf.Funcs, id); return true
CallDelete(c) ==
    /\ InOp(c, "Call", "delete")
    /\ Funcs' = Delete(Funcs, rc[c].op.id)
    /\ Leave(c, "Call", Returned(TRUE), <<Fired(rc[c].op.f)>>)
    /\ UNCHANGED <<router, added, fired, crashed, pc>>

\* goroutine c is about to access the map; the access is a write
AtMap(c) ==
    /\ pc[c] = "handler"
    /\ rc[c].op # NoOp
    /\ rc[c].op.stage \in {"lookup", "write", "delete"}
AtMapWrite(c) == AtMap(c) /\ rc[c].op.stage \in {"write", "delete"}

\* two goroutines access the map at once and one of them writes: the runtime
\* may detect it ("fatal error: concurrent map writes"), which no recover()
\* catches
MapFatal(c, d) ==
    /\ ~crashed
    /\ c # d
    /\ AtMapWrite(c)
    /\ AtMap(d)
    /\ crashed' = TRUE
    /\ last' = Op(c, "fatal error", <<>>, NoValue, <<>>, NoFin)
    /\ UNCHANGED <<router, Funcs, added, fired, pc, rc>>

\* ------------------------------------------------------------- storage pool
\* WithConn, WithConnBool and ProfileClient take a connection with
\* rc.DBPool.Get(rc.Ctx.Done()), defer rc.DBPool.Put(conn) and run their body.
Acquired(conn) == [ev |-> "get", conn |-> conn]
Released(conn) == [ev |-> "put", conn |-> conn]

\* Pool.Get(done): a free connection, which leaves the pool; Get waits while
\* none is free, and gives up with nil once the call's context is done
GetResults(free) == free \cup {NilConn}

\* the mutant of Put: the connection does not go back
PutNothing(free, conn) == free

\* Pool.Put(conn): the connection is free again
Put(free, conn) == IF conn.isNil THEN free ELSE free \cup {conn}

\* errors.New(text) and errors.Errorf(format, ...): an error with a stack
ErrorsNew(text) == [MkErr(text, NoRpc, FALSE, FALSE) EXCEPT !.stack = TRUE]
\* Pool.Put(nil) does not return: the pool panics on the nil connection,
\* with a runtime error or with a message, as its implementation decides
PutNilPanics ==
    {PanicErr(MkErr(<<"nil pointer dereference">>, NoRpc, FALSE, FALSE)),
     PanicStr("nil conn")}

\* the operation in progress on a context: which one, its argument, the
\* connection Get returned; and a panic on its way from an operation of the
\* context to the deferred recover() of Dispatch
ConnOp(kind, arg, conn) ==
    [kind |-> kind, arg |-> arg, conn |-> conn, stage |-> "fn"]
Unwind(v) == [kind |-> "unwind", v |-> v, stage |-> "panic"]

\* conn := rc.DBPool.Get(rc.Ctx.Done()); defer rc.DBPool.Put(conn)
Get(c, kind, arg, conn) ==
    /\ ~crashed
    /\ pc[c] = "handler"
    /\ rc[c].op = NoOp
    /\ conn \in GetResults(dbPool)
    /\ dbPool' = dbPool \ {conn}
    /\ rc' = [rc EXCEPT ![c].op = ConnOp(kind, arg, conn)]
    /\ last' = Op(c, "Get", <<kind, arg>>, conn, <<Acquired(conn)>>, NoFin)
    /\ UNCHANGED <<Handlers, NotificationHandlers, ButlerVersionString, registry, pc>>

\* the body of the operation is over: it returned ret (v is NoPanic) or
\* panicked with v. The deferred Put runs; on a nil connection it panics
\* with pv, which replaces a panic under way. Then the operation returns
\* ret, or the panic goes on to the caller.
Exit(c, kind, v, ret, pv) ==
    /\ InOp(c, kind, "fn")
    /\ pv \in PutNilPanics
    /\ LET conn == rc[c].op.conn
           w == IF conn.isNil THEN pv ELSE v
       IN  /\ dbPool' = Put(dbPool, conn)
           /\ rc' = [rc EXCEPT ![c].op = IF w.kind = "none" THEN NoOp ELSE Unwind(w)]
           /\ last' = Op(c, kind, <<rc[c].op.arg>>,
                         IF w.kind = "none" THEN ret ELSE NoValue,
                         <<Released(conn)>>
                            \o (IF w.kind = "none" THEN <<>> ELSE <<Panicked>>),
                         NoFin)
    /\ UNCHANGED <<Handlers, NotificationHandlers, ButlerVersionString, registry, pc>>

\* what f does in WithConn and WithConnBool: it returns, or it panics
FnPanics == {NoPanic, PanicStr("boom"), PanicErr(PlainErr)}

EnterWithConn(c, conn) == Get(c, "WithConn", "f", conn)
WithConn(c, v) == \E pv \in PutNilPanics : Exit(c, "WithConn", v, NoValue, pv)

EnterWithConnBool(c, conn) == Get(c, "WithConnBool", "f", conn)
WithConnBool(c, b, v) == \E pv \in PutNilPanics : Exit(c, "WithConnBool", v, Returned(b), pv)

\* the profiles in the database: one with a credential, one without
ProfileIds == {0, 1, 2, 3}
ProfileStore == (1 :> [id |-> 1, APIKey |-> "k1"]) @@ (2 :> [id |-> 2, APIKey |-> ""])
\* models.ProfileByID(conn, profileID): the profile, <<>> for nil
ProfileByID(conn, profileID) ==
    IF profileID \in DOMAIN ProfileStore THEN <<ProfileStore[profileID]>> ELSE <<>>
\* rc.Client(key): the client the resolver makes for the key
Client(key) == <<"client", key>>

\* the body of ProfileClient after Get: the panic it raises, or what it returns
ProfileBody(conn, profileID) ==
    LET profile == ProfileByID(conn, profileID)
    IN  IF profile = <<>>
        THEN [v |-> PanicErr(ErrorsNew(<<"Could not find profile ", Digit(profileID)>>)),
              ret |-> NoValue]
        ELSE IF profile[1].APIKey = ""
        THEN [v |-> PanicErr(ErrorsNew(<<"Profile ", Digit(profileID), " lacks API key">>)),
              ret |-> NoValue]
        ELSE [v |-> NoPanic,
              ret |-> [profile |-> profile[1], client |-> Client(profile[1].APIKey)]]

\* ProfileClient(profileID) up to Get: profileID 0 panics before it
EnterProfileClient(c, profileID, conn) ==
    IF profileID = 0
    THEN /\ ~crashed
         /\ pc[c] = "handler"
         /\ rc[c].op = NoOp
         /\ rc' = [rc EXCEPT ![c].op =
                        Unwind(PanicErr(ErrorsNew(<<"profileId must be non-zero">>)))]
         /\ last' = Op(c, "ProfileClient", <<profileID>>, NoValue, <<Panicked>>, NoFin)
         /\ UNCHANGED <<router, registry, pc>>
    ELSE Get(c, "ProfileClient", profileID, conn)

\* the rest of ProfileClient
ProfileClient(c) ==
    /\ InOp(c, "ProfileClient", "fn")
    /\ LET b == ProfileBody(rc[c].op.conn, rc[c].op.arg)
       IN  \E pv \in PutNilPanics : Exit(c, "ProfileClient", b.v, b.ret, pv)

\* a panic that left an operation of the context reaches the deferred
\* recover() of Dispatch
Unwound(c) ==
    /\ pc[c] = "handler"
    /\ rc[c].op.kind = "unwind"
    /\ \E r \in Recovered(rc[c].op.v) :
            Finish(c, "panic", rc[c].op.v, NilResult, RecoverErr(r), FALSE)

\* ------------------------------------------------------------ specifications
\* registrations of the methods in ms
RouterStep(ms) ==
    \/ \E m \in ms, h \in RequestHandlers : Register(m, h)
    \/ \E m \in ms, h \in NotificationHandlerFns : RegisterNotification(m, h)

DispatchStep(c) ==
    \/ \E m \in Methods, n \in BOOLEAN : Dispatch(c, m, n)
    \/ \E res \in Results, e \in ErrValues \cup {NilErr}, f \in BOOLEAN :
            Return(c, res, e, f)
    \/ \E v \in PanicValues, f \in BOOLEAN : \E r \in Recovered(v) : Panic(c, v, r, f)

ContextStep(c) ==
    \/ \E m \in NotifyMethods, ok \in BOOLEAN : Notify(c, m, "p1", ok)
    \/ \E m \in NotifyMethods, ni \in Interceptors : InterceptNotification(c, m, ni)
    \/ \E m \in NotifyMethods : StopInterceptingNotification(c, m)
    \/ StartProgress(c)
    \/ \E n \in Totals : StartProgressWithTotalBytes(c, "StartProgressWithTotalBytes", n)
    \/ \E p \in Alphas, n \in Totals :
            StartProgressWithInitialAndTotal(c, "StartProgressWithInitialAndTotal", p, n)
    \/ EndProgress(c)
    \/ \E alpha \in Alphas : Progress(c, alpha)
    \/ ProgressLabel(c)
    \/ PauseProgress(c)
    \/ ResumeProgress(c)

RegistryStep(c) ==
    \/ \E id \in Ids, f \in Callbacks : EnterAdd(c, id, f)
    \/ \E id \in Ids : EnterRemove(c, id)
    \/ \E id \in Ids : EnterCall(c, id)
    \/ Add(c)
    \/ Remove(c)
    \/ CallLookup(c)
    \/ CallInvoke(c)
    \/ CallDelete(c)

PoolStep(c) ==
    \/ \E conn \in Conns \cup {NilConn} : EnterWithConn(c, conn)
    \/ \E conn \in Conns \cup {NilConn} : EnterWithConnBool(c, conn)
    \/ \E id \in ProfileIds, conn \in Conns \cup {NilConn} :
            EnterProfileClient(c, id, conn)
    \/ \E v \in FnPanics : WithConn(c, v)
    \/ \E b \in BOOLEAN, v \in FnPanics : WithConnBool(c, b, v)
    \/ ProfileClient(c)
    \/ Unwound(c)

\* the transport runs Dispatch in one goroutine per message
Next ==
    \/ RouterStep(Methods)
    \/ \E c \in Calls : DispatchStep(c)
    \/ \E c \in Calls : ContextStep(c)
    \/ \E c \in Calls : RegistryStep(c)
    \/ \E c \in Calls : PoolStep(c)
    \/ \E c, d \in Calls : MapFatal(c, d)

Spec == Init /\ [][Next]_vars

\* messages arriving one after the other: a Dispatch starts when none runs
NoneRunning == \A c \in Calls : pc[c] = "idle"
NextSerial ==
    \/ RouterStep({"m1"})
    \/ \E c \in Calls : (pc[c] = "idle" => NoneRunning) /\ DispatchStep(c)
    \/ \E c \in Calls : ContextStep(c)

SpecSerial == Init /\ [][NextSerial]_vars

\* handlers of concurrent calls that use the cancellation registry
SimpleReturn(c) ==
    \/ Return(c, "r1", NilErr, FALSE)
    \/ Panic(c, PanicStr("boom"), PanicStr("boom"), FALSE)
NextRegistry ==
    \/ RouterStep({"m1"})
    \/ \E c \in Calls, n \in BOOLEAN : Dispatch(c, "m1", n)
    \/ \E c \in Calls : SimpleReturn(c)
    \/ \E c \in Calls : RegistryStep(c)
    \/ \E c, d \in Calls : MapFatal(c, d)

SpecRegistry == Init /\ [][NextRegistry]_vars

\* the same handlers, one call at a time
NextRegistrySerial ==
    \/ RouterStep({"m1"})
    \/ \E c \in Calls, n \in BOOLEAN : NoneRunning /\ Dispatch(c, "m1", n)
    \/ \E c \in Calls : SimpleReturn(c)
    \/ \E c \in Calls : RegistryStep(c)

SpecRegistrySerial == Init /\ [][NextRegistrySerial]_vars

\* registration of every method in both tables, and the calls dispatched
NextRouter ==
    \/ RouterStep(Methods)
    \/ \E c \in Calls, m \in Methods, n \in BOOLEAN : Dispatch(c, m, n)
    \/ \E c \in Calls : SimpleReturn(c)

SpecRouter == Init /\ [][NextRouter]_vars

\* concurrent calls whose handlers send and intercept notifications
InterceptStep(c) ==
    \/ \E m \in NotifyMethods, ok \in BOOLEAN : Notify(c, m, "p1", ok)
    \/ \E m \in NotifyMethods, ni \in Interceptors : InterceptNotification(c, m, ni)
    \/ \E m \in NotifyMethods : StopInterceptingNotification(c, m)
NextContexts ==
    \/ RouterStep({"m1"})
    \/ \E c \in Calls, n \in BOOLEAN : Dispatch(c, "m1", n)
    \/ \E c \in Calls : SimpleReturn(c)
    \/ \E c \in Calls : InterceptStep(c)

SpecContexts == Init /\ [][NextContexts]_vars

\* concurrent calls whose handlers use the storage pool
NextPool ==
    \/ Register("m1", "h1")
    \/ RegisterNotification("m1", "n1")
    \/ \E c \in Calls, n \in BOOLEAN : Dispatch(c, "m1", n)
    \/ \E c \in Calls : SimpleReturn(c)
    \/ \E c \in Calls : PoolStep(c)

SpecPool == Init /\ [][NextPool]_vars

\* two calls in flight: the handler of g1 takes pooled connections and may
\* stop for ever at any point (nothing makes it go on); the handler of g2
\* shares nothing with it and comes to its end, by return or by panic
NextBlocking ==
    \/ Register("m1", "h1")
    \/ RegisterNotification("m1", "n1")
    \/ \E c \in Calls, n \in BOOLEAN : Dispatch(c, "m1", n)
    \/ \E c \in Calls : SimpleReturn(c)
    \/ PoolStep("g1")

SpecBlocking == Init /\ [][NextBlocking]_vars /\ WF_vars(SimpleReturn("g2"))

\* ==================================================================== claims
\* the step that ended a Dispatch of a request / of a notification
RequestEnded == last.fin.done /\ ~last.fin.notif
NotificationEnded == last.fin.done /\ last.fin.notif
\* that Dispatch sent exactly one reply, a ReplyWithError
OneErrorReply == Len(last.fin.replies) = 1 /\ last.fin.replies[1].kind = "error"
\* data.stack of a reply holds the token tok
StackHolds(reply, tok) ==
    /\ ~reply.data.isNil
    /\ \E mem \in reply.data.members :
            mem[1] = "stack" /\ mem[2][1] = "json-string" /\ Contains(mem[2][2], tok)

\* C1: a request whose method has no request handler is answered by exactly
\* one ReplyWithError with the "method not found" code and a message that
\* holds the method name; no handler, of either table, is invoked.
C1_UnknownMethod ==
    (last.op = "Dispatch" /\ ~last.arg[2] /\ last.arg[1] \notin DOMAIN Handlers)
        => /\ RequestEnded
           /\ pc[last.call] = "idle"
           /\ last.fin.invoked = <<>>
           /\ OneErrorReply
           /\ last.fin.replies[1].code = CodeMethodNotFound
           /\ Contains(last.fin.replies[1].message, last.arg[1])

\* a request for a method that only the notification table knows was answered
C1_Witness ==
    /\ last.op = "Dispatch" /\ ~last.arg[2]
    /\ last.arg[1] \notin DOMAIN Handlers
    /\ last.arg[1] \in DOMAIN NotificationHandlers
    /\ last.fin.done

\* the failure is not recognised by the first three rules of the classifier
Unclassified(e) == ~e.rpc.has /\ ~e.net /\ ~e.cancelled
\* a request handler panicked with an error value
PanickedWithError ==
    RequestEnded /\ last.op = "panic" /\ last.fin.panicked.kind = "error"

\* C2 as claimed: whatever error value a request handler panics with, the
\* reply is one ReplyWithError with the generic internal-error code whose
\* data.stack holds the error's description.
C2_Original ==
    PanickedWithError
        => /\ OneErrorReply
           /\ last.fin.replies[1].code = CodeInternalError
           /\ \A i \in 1..Len(last.fin.panicked.e.text) :
                  StackHolds(last.fin.replies[1], last.fin.panicked.e.text[i])

\* C2 amended: a request handler that panics with an error value gets one
\* ReplyWithError and Dispatch returns; when the classifier recognises the
\* error by none of its first three rules, the code is the generic
\* internal-error code and data.stack holds the error's description, and an
\* error whose root cause is the cancelled sentinel (and that is neither a
\* protocol error nor a network failure) gets the operation-cancelled code. The
\* panicking step leaves the tables, the version and the registry as they
\* were and the goroutine free for the next message.
C2_PanicWithError ==
    /\ [](PanickedWithError
            => /\ OneErrorReply
               /\ ~crashed
               /\ pc[last.call] = "idle" /\ rc[last.call] = NoCtx
               /\ Unclassified(last.fin.panicked.e)
                    => /\ last.fin.replies[1].code = CodeInternalError
                       /\ \A i \in 1..Len(last.fin.panicked.e.text) :
                            StackHolds(last.fin.replies[1], last.fin.panicked.e.text[i])
               /\ (~last.fin.panicked.e.rpc.has /\ ~last.fin.panicked.e.net
                        /\ last.fin.panicked.e.cancelled)
                    => last.fin.replies[1].code = CodeOperationCancelled)
    /\ [][last'.op = "panic" => (router' = router /\ registry' = registry)]_vars

\* a request handler panicked with a plain error and was answered
C2_Witness ==
    /\ PanickedWithError
    /\ Unclassified(last.fin.panicked.e)
    /\ last.fin.replies[1].code = CodeInternalError

\* a request handler panicked with a value that is no error
PanickedWithValue ==
    RequestEnded /\ last.op = "panic"
        /\ last.fin.panicked.kind \in {"string", "int", "nil"}

\* C3: a request handler that panics with a non-error value v gets one
\* ReplyWithError with the generic internal-error code and the message
\* "panic: " followed by the rendering of v.
C3_PanicWithValue ==
    PanickedWithValue
        => /\ OneErrorReply
           /\ last.fin.replies[1].code = CodeInternalError
           /\ last.fin.replies[1].message = <<"panic: ", SprintfV(last.fin.panicked)>>

\* C4: the Dispatch of a notification sends no reply, whether its handler
\* returns or panics or is missing, and returns; without handler none is
\* invoked.
C4_NotificationNoReply ==
    /\ NotificationEnded
        => /\ last.fin.replies = <<>>
           /\ pc[last.call] = "idle"
           /\ ~crashed
    /\ (last.op = "Dispatch" /\ last.arg[2]
            /\ last.arg[1] \notin DOMAIN NotificationHandlers)
        => /\ NotificationEnded
           /\ last.fin.invoked = <<>>

\* a notification handler panicked with an error
C4_Witness ==
    /\ NotificationEnded
    /\ last.op = "panic"
    /\ last.fin.panicked.kind = "error"
    /\ last.fin.invoked # <<>>

\* C5: the registry used by one call at a time. Call(id) on an entry invokes
\* the registered callback once, returns true and leaves no entry for id;
\* Call(id) without entry returns false, invokes nothing and leaves the
\* registry as it was; Remove(id) deletes the entry and invokes nothing. No
\* callback is invoked more often than it was registered.
C5_SequentialRegistry ==
    /\ [](\A f \in Callbacks : fired[f] <= added[f])
    /\ []((last.op = "Call" /\ last.ret = Returned(FALSE)) => last.emitted = <<>>)
    /\ [][\A c \in Calls :
            (pc[c] = "handler" /\ last'.call = c) =>
                /\ (rc[c].op.kind = "Call" /\ rc[c].op.stage = "lookup"
                        /\ rc[c].op.id \notin DOMAIN Funcs)
                     => (last'.op = "Call" /\ last'.ret = Returned(FALSE) /\ registry' = registry)
                /\ (rc[c].op.kind = "Call" /\ rc[c].op.stage = "lookup"
                        /\ rc[c].op.id \in DOMAIN Funcs)
                     => (last'.op = "Call.lookup" /\ registry' = registry)
                /\ (last'.op = "Call" /\ last'.ret = Returned(TRUE))
                     => /\ last'.arg[1] \in DOMAIN Funcs
                        /\ last'.emitted = <<Fired(Funcs[last'.arg[1]])>>
                        /\ last'.arg[1] \notin DOMAIN Funcs'
                /\ (last'.op = "Call.invoke")
                     => /\ fired'[Funcs[rc[c].op.id]] = fired[Funcs[rc[c].op.id]] + 1
                        /\ \A g \in Callbacks \ {Funcs[rc[c].op.id]} : fired'[g] = fired[g]
                /\ (last'.op = "Remove")
                     => /\ last'.arg[1] \notin DOMAIN Funcs'
                        /\ \A id \in DOMAIN Funcs \ {last'.arg[1]} :
                                id \in DOMAIN Funcs' /\ Funcs'[id] = Funcs[id]
                        /\ fired' = fired
                        /\ last'.emitted = <<>>]_vars

\* a second Call for an identifier whose callback was fired returns false
C5_Witness ==
    /\ last.op = "Call" /\ last.ret = Returned(FALSE)
    /\ \E f \in Callbacks : fired[f] = 1 /\ added[f] = 1

\* C6: under any interleaving of the registry operations of concurrent
\* calls, no callback is invoked more often than it was registered.
C6_FiredAtMostOnce == \A f \in Callbacks : fired[f] <= added[f]

\* the reply a failed request got
FailedRequest == RequestEnded /\ ~last.fin.err.isNil

\* C7: the reply to a failed request takes code and message from the first
\* rule that matches the failure: the protocol-error capability (its own
\* code and message), a network failure, the cancelled sentinel (each its
\* fixed code and message), else the generic internal-error code with the
\* failure's description.
C7_ClassifierPrecedence ==
    FailedRequest =>
        /\ OneErrorReply
        /\ LET e == last.fin.err
               r == last.fin.replies[1]
           IN  /\ e.rpc.has => (r.code = e.rpc.code /\ r.message = e.rpc.message)
               /\ (~e.rpc.has /\ e.net)
                    => (r.code = CodeNetworkDisconnected
                        /\ r.message = CodeText(CodeNetworkDisconnected))
               /\ (~e.rpc.has /\ ~e.net /\ e.cancelled)
                    => (r.code = CodeOperationCancelled
                        /\ r.message = CodeText(CodeOperationCancelled))
               /\ (~e.rpc.has /\ ~e.net /\ ~e.cancelled)
                    => (r.code = CodeInternalError /\ r.message = e.text)

\* a protocol error whose cause is the cancelled sentinel kept its own code
C7_Witness ==
    /\ FailedRequest
    /\ last.fin.err.rpc.has /\ last.fin.err.cancelled
    /\ last.fin.replies[1].code = last.fin.err.rpc.code

\* C8: every error reply carries data with stack (the rendering of the
\* failure) and butlerVersion, and every pair of the failure's own data is
\* in it with its value.
C8_ErrorData ==
    FailedRequest =>
        LET e == last.fin.err
            d == last.fin.replies[1].data
        IN  /\ OneErrorReply
            /\ ~d.isNil
            /\ <<"stack", JsonString(SprintfPlusV(e))>> \in d.members
            /\ <<"butlerVersion", JsonString(<<ButlerVersionString>>)>> \in d.members
            /\ (e.rpc.has /\ ~e.rpc.data.isNil)
                => \A k \in DOMAIN e.rpc.data.m :
                        <<k, JsonString(e.rpc.data.m[k])>> \in d.members

\* C9: registering a name the table holds panics and changes nothing;
\* registering a free name adds that binding and changes nothing else; the
\* two tables do not affect each other; the handler a call runs is the one
\* bound to its method.
C9_RegisterOnce ==
    /\ [](\A c \in Calls : pc[c] = "handler" =>
            rc[c].handler = (IF rc[c].notif THEN NotificationHandlers
                             ELSE Handlers)[rc[c].method])
    /\ [][/\ last'.op = "Register" =>
                /\ NotificationHandlers' = NotificationHandlers
                /\ IF last'.arg[1] \in DOMAIN Handlers
                   THEN last'.emitted = <<Panicked>> /\ Handlers' = Handlers
                   ELSE /\ last'.emitted = <<>>
                        /\ DOMAIN Handlers' = DOMAIN Handlers \cup {last'.arg[1]}
                        /\ Handlers'[last'.arg[1]] = last'.arg[2]
                        /\ \A k \in DOMAIN Handlers : Handlers'[k] = Handlers[k]
          /\ last'.op = "RegisterNotification" =>
                /\ Handlers' = Handlers
                /\ IF last'.arg[1] \in DOMAIN NotificationHandlers
                   THEN /\ last'.emitted = <<Panicked>>
                        /\ NotificationHandlers' = NotificationHandlers
                   ELSE /\ last'.emitted = <<>>
                        /\ DOMAIN NotificationHandlers'
                                = DOMAIN NotificationHandlers \cup {last'.arg[1]}
                        /\ NotificationHandlers'[last'.arg[1]] = last'.arg[2]
                        /\ \A k \in DOMAIN NotificationHandlers :
                                NotificationHandlers'[k] = NotificationHandlers[k]]_vars

\* a second Register of a name panicked; the name is in both tables
C9_Witness ==
    /\ last.op = "Register"
    /\ last.emitted = <<Panicked>>
    /\ last.arg[1] \in DOMAIN NotificationHandlers
    /\ Handlers[last.arg[1]] # last.arg[2]

\* C10: while a request handler runs, progress(alpha) with an active tracker
\* emits one "Progress" notification with progress = alpha, handed to the
\* interceptor installed for "Progress" when there is one and to the
\* connection otherwise; without tracker it emits nothing and changes
\* nothing; pauseProgress and resumeProgress emit nothing and change nothing
\* without tracker.
C10_ProgressBridge ==
    [][\A c \in Calls :
        (pc[c] = "handler" /\ ~rc[c].notif /\ last'.call = c) =>
            /\ last'.op = "progress" =>
                IF ~rc[c].tracker.isNil
                THEN /\ Len(last'.emitted) = 1
                     /\ last'.emitted[1].ev \in {"wire", "intercepted"}
                     /\ last'.emitted[1].method = "Progress"
                     /\ last'.emitted[1].params.progress = last'.arg[1]
                     /\ last'.emitted[1].ev = "intercepted"
                            <=> /\ ~rc[c].interceptors.isNil
                                /\ "Progress" \in DOMAIN rc[c].interceptors.m
                ELSE /\ last'.emitted = <<>>
                     /\ rc' = rc /\ router' = router /\ registry' = registry
            /\ last'.op \in {"pauseProgress", "resumeProgress"} =>
                /\ last'.emitted = <<>>
                /\ rc[c].tracker.isNil => rc' = rc]_vars

\* progress(0.5) of a request handler reached the interceptor of "Progress"
C10_Witness ==
    /\ last.op = "progress"
    /\ last.arg = <<5>>
    /\ Len(last.emitted) = 1
    /\ last.emitted[1].ev = "intercepted"
    /\ last.emitted[1].params.progress = 5

\* the three ways to start progress tracking
StartVariants ==
    {"StartProgress", "StartProgressWithTotalBytes", "StartProgressWithInitialAndTotal"}

\* C11: a start while a tracker is active leaves the tracker as it is
\* (progress, total bytes and pause state), emits one warning and no
\* notification; EndProgress without tracker changes nothing and emits one
\* warning and no panic; a start without tracker makes one with the given
\* initial progress and total and emits nothing, EndProgress with a tracker
\* empties the slot; so after every start the slot is active and after every
\* EndProgress it is empty, and no other operation of the context fills or
\* empties it.
C11_StartEndProgress ==
    [][\A c \in Calls :
        (pc[c] = "handler" /\ last'.call = c /\ pc'[c] = "handler") =>
            /\ last'.op \in StartVariants =>
                /\ ~rc'[c].tracker.isNil
                /\ router' = router /\ registry' = registry
                /\ IF ~rc[c].tracker.isNil
                   THEN rc' = rc /\ last'.emitted = <<Warnf>>
                   ELSE /\ last'.emitted = <<>>
                        /\ rc'[c].tracker = NewTracker(last'.arg[1], last'.arg[2])
                        /\ rc' = [rc EXCEPT ![c].tracker = rc'[c].tracker]
            /\ last'.op = "EndProgress" =>
                /\ rc'[c].tracker.isNil
                /\ router' = router /\ registry' = registry
                /\ IF rc[c].tracker.isNil
                   THEN rc' = rc /\ last'.emitted = <<Warnf>>
                   ELSE /\ last'.emitted = <<>>
                        /\ rc' = [rc EXCEPT ![c].tracker = NilTracker]
            /\ last'.op \notin StartVariants \cup {"EndProgress"} =>
                (rc'[c].tracker.isNil <=> rc[c].tracker.isNil)]_vars

\* StartProgress on a context whose tracker had progressed: a warning, and
\* the tracker still holds its progress and its total
C11_Witness ==
    /\ last.op = "StartProgress"
    /\ last.emitted = <<Warnf>>
    /\ rc[last.call].tracker = [NewTracker(5, 100) EXCEPT !.paused = TRUE]

\* an interceptor is installed for method in the interceptor table ints
Installed(ints, method) == ~ints.isNil /\ method \in DOMAIN ints.m

\* C12: Notify(method, params) of a context with an interceptor for method
\* calls that interceptor with method and params, sends nothing on the
\* transport and returns the interceptor's result; without interceptor for
\* method it sends on the transport and returns what the transport returns.
\* InterceptNotification(method, ni) installs ni for method on its own context
\* and StopInterceptingNotification(method) removes the entry of method from
\* its own context; neither changes the context of another call in flight,
\* and StopInterceptingNotification on a context without interceptors changes
\* nothing.
C12_NotifyInterception ==
    [][\A c \in Calls :
        (pc[c] = "handler" /\ last'.call = c) =>
            /\ last'.op = "Notify" =>
                /\ rc' = rc
                /\ IF Installed(rc[c].interceptors, last'.arg[1])
                   THEN /\ last'.emitted =
                            <<Intercepted(rc[c].interceptors.m[last'.arg[1]],
                                          last'.arg[1], last'.arg[2])>>
                        /\ last'.ret.by = rc[c].interceptors.m[last'.arg[1]]
                   ELSE /\ last'.emitted = <<Wire(last'.arg[1], last'.arg[2])>>
                        /\ last'.ret.by = "conn"
            /\ last'.op = "InterceptNotification" =>
                /\ \A d \in Calls \ {c} : rc'[d] = rc[d]
                /\ last'.emitted = <<>>
                /\ Installed(rc'[c].interceptors, last'.arg[1])
                /\ rc'[c].interceptors.m[last'.arg[1]] = last'.arg[2]
                /\ \A m \in NotifyMethods \ {last'.arg[1]} :
                        NotifyEvent(rc'[c].interceptors, m, "p1")
                            = NotifyEvent(rc[c].interceptors, m, "p1")
            /\ last'.op = "StopInterceptingNotification" =>
                /\ \A d \in Calls \ {c} : rc'[d] = rc[d]
                /\ last'.emitted = <<>>
                /\ ~Installed(rc'[c].interceptors, last'.arg[1])
                /\ rc[c].interceptors.isNil => rc' = rc
                /\ \A m \in NotifyMethods \ {last'.arg[1]} :
                        NotifyEvent(rc'[c].interceptors, m, "p1")
                            = NotifyEvent(rc[c].interceptors, m, "p1")]_vars

\* a Notify was intercepted on one context while the context of another call
\* in flight has no interceptor at all
C12_Witness ==
    /\ last.op = "Notify"
    /\ last.emitted[1].ev = "intercepted"
    /\ \E d \in Calls \ {last.call} :
            pc[d] = "handler" /\ rc[d].interceptors.isNil

\* the calls whose handler is inside the body of an operation that took a
\* connection, and the connections out of the pool
InBody(c) == pc[c] = "handler" /\ rc[c].op.kind \in {"WithConn", "WithConnBool", "ProfileClient"}
HeldConns == Conns \ dbPool

\* C13: while f runs in WithConn or WithConnBool the call holds one pooled
\* connection, which is out of the pool; the connections out of the pool are
\* those of the operations whose body is running, one each, so that every
\* operation that is over (returned, or left by a panic) has put its
\* connection back.
C13_ScopedConn ==
    /\ \A c \in Calls :
            (InBody(c) /\ rc[c].op.kind \in {"WithConn", "WithConnBool"})
                => (~rc[c].op.conn.isNil /\ rc[c].op.conn \notin dbPool)
    /\ HeldConns = {rc[c].op.conn : c \in {d \in Calls : InBody(d)}}
    /\ Cardinality(HeldConns) = Cardinality({c \in Calls : InBody(c)})

\* the calls that hold a connection Get gave them
Holders == {c \in Calls : InBody(c) /\ ~rc[c].op.conn.isNil}

\* C14: ProfileClient(0) panics with nothing taken from the pool and no
\* lookup; ProfileClient(id), id # 0, ends in a panic when no profile has
\* that id or the profile's credential is empty; when ProfileClient is over,
\* by return or by panic, the connection Get gave it is back in the pool;
\* when it returns, it returns the profile of that id and the client
\* resolved from that profile's credential. At any time the connections out
\* of the pool are those of the operations whose body is running, one each.
C14_ProfileClient ==
    /\ [](/\ HeldConns = {rc[c].op.conn : c \in Holders}
          /\ Cardinality(HeldConns) = Cardinality(Holders))
    /\ [][\A c \in Calls :
            (last'.call = c /\ last'.op = "ProfileClient") =>
                IF last'.arg[1] = 0
                THEN /\ rc[c].op = NoOp
                     /\ dbPool' = dbPool
                     /\ last'.emitted = <<Panicked>>
                     /\ rc'[c].op.kind = "unwind"
                     /\ rc'[c].op.v.kind = "error"
                ELSE /\ rc[c].op.kind = "ProfileClient"
                     /\ last'.emitted[1] = Released(rc[c].op.conn)
                     /\ ~rc[c].op.conn.isNil =>
                            (rc[c].op.conn \notin dbPool /\ rc[c].op.conn \in dbPool')
                     /\ ~InBody(c)'
                     /\ (last'.arg[1] \notin DOMAIN ProfileStore
                            \/ ProfileStore[last'.arg[1]].APIKey = "")
                          => (rc'[c].op.kind = "unwind" /\ Panicked = last'.emitted[2])
                     /\ rc'[c].op = NoOp
                          => /\ last'.ret.profile.id = last'.arg[1]
                             /\ last'.ret.profile = ProfileStore[last'.arg[1]]
                             /\ last'.ret.client
                                    = Client(ProfileStore[last'.arg[1]].APIKey)]_vars

\* ProfileClient of an identifier no profile has panicked after the lookup;
\* every connection is in the pool again
C14_Witness ==
    /\ last.op = "ProfileClient"
    /\ last.arg = <<3>>
    /\ Len(last.emitted) = 2
    /\ ~last.emitted[1].conn.isNil
    /\ last.emitted[2] = Panicked
    /\ dbPool = Conns

\* C15: the Dispatch of a request sends exactly one reply: a Reply with the
\* result when the handler returned without error, and a ReplyWithError in
\* every other case (the handler returned an error, with or without a
\* result, it panicked, or the method is unknown); a Reply that fails to be
\* sent is logged and nothing else is sent.
C15_ExactlyOneReply ==
    RequestEnded =>
        /\ Len(last.fin.replies) = 1
        /\ IF last.op = "return" /\ last.fin.err.isNil
           THEN last.fin.replies[1] = ResultReply(last.fin.res)
           ELSE last.fin.replies[1].kind = "error"
        /\ last.emitted \in {<<>>, <<Errorf>>}
        /\ last.emitted = <<Errorf>> => last.fin.replies[1].kind = "result"

\* C16: with calls in flight that Add, Call and Remove concurrently, an
\* entry leaves the registry only through Remove of its identifier or
\* through the Call that fired its callback: a Call never deletes a callback
\* other than the one it invoked.
C16_NoLostUpdate ==
    [][\A id \in DOMAIN Funcs :
        id \notin DOMAIN Funcs' =>
            \/ last'.op = "Remove" /\ last'.arg = <<id>>
            \/ /\ last'.op = "Call" /\ last'.arg = <<id>> /\ last'.ret = Returned(TRUE)
               /\ last'.emitted = <<Fired(Funcs[id])>>]_vars

\* C17: while the handler of one call stays where it is for ever (in the
\* body of WithConn with a pooled connection in hand, or anywhere else), a
\* request dispatched concurrently whose handler comes to its end gets its
\* one reply; the steps of Dispatch itself (the start of a call, its end by
\* return or panic) take nothing from the pool, leave the registry alone and
\* touch neither the place nor the context of any other call.
C17_NoStall ==
    /\ (pc["g2"] = "handler" /\ ~rc["g2"].notif)
            ~> (last.call = "g2" /\ RequestEnded /\ Len(last.fin.replies) = 1)
    /\ [][last'.op \in {"Dispatch", "return", "panic"} =>
            /\ dbPool' = dbPool
            /\ registry' = registry
            /\ \A d \in Calls \ {last'.call} : pc'[d] = pc[d] /\ rc'[d] = rc[d]]_vars

\* the request of g2 was answered while the handler of g1 sits in the body
\* of WithConn with a connection of the pool
C17_Witness ==
    /\ last.call = "g2"
    /\ RequestEnded
    /\ Len(last.fin.replies) = 1
    /\ pc["g1"] = "handler"
    /\ rc["g1"].op.kind = "WithConn"
    /\ ~rc["g1"].op.conn.isNil

\* C18: when the handler of a call comes to its end, by return or by panic,
\* with a tracker still active, Dispatch emits a warning; the replies are
\* those the same result and error get without tracker, and the context is
\* discarded with its tracker.
C18_ForgottenTracker ==
    [][\A c \in Calls :
        (pc[c] = "handler" /\ ~rc[c].tracker.isNil /\ last'.call = c /\ last'.fin.done)
            => /\ \E i \in 1..Len(last'.emitted) : last'.emitted[i] = Warnf
               /\ last'.fin.replies
                    = Replies(rc[c].notif, last'.fin.res, last'.fin.err, ButlerVersionString)
               /\ rc'[c] = NoCtx]_vars

\* C19: the progress callbacks are wired exactly for the contexts handed to
\* request handlers. In a notification handler progress(alpha),
\* pauseProgress and resumeProgress emit nothing and change nothing, also
\* with an active tracker; a request for an unknown method and a
\* notification without handler run no handler, hence no signal at all.
C19_BridgeRequestsOnly ==
    /\ [](\A c \in Calls :
            /\ pc[c] = "handler" => (rc[c].bridge <=> ~rc[c].notif)
            /\ pc[c] = "idle" => rc[c] = NoCtx)
    /\ []((last.op = "Dispatch" /\ last.fin.done)
            => (pc[last.call] = "idle" /\ last.fin.invoked = <<>>))
    /\ [][\A c \in Calls :
            (pc[c] = "handler" /\ rc[c].notif /\ last'.call = c
                /\ last'.op \in {"progress", "pauseProgress", "resumeProgress"})
              => (last'.emitted = <<>> /\ rc' = rc)]_vars

\* a notification handler started a tracker and fired progress(0.5): nothing
\* was emitted and the tracker still shows its initial progress
C19_Witness ==
    /\ last.op = "progress"
    /\ last.arg = <<5>>
    /\ last.emitted = <<>>
    /\ rc[last.call].notif
    /\ ~rc[last.call].tracker.isNil
    /\ rc[last.call].tracker.progress = 0

\* the last operation raised a panic
RaisedPanic == \E i \in 1..Len(last.emitted) : last.emitted[i] = Panicked
\* v is one of the three panics ProfileClient raises itself
IsProfilePanic(v) ==
    /\ v.kind = "error"
    /\ v.e.text[1] \in {"profileId must be non-zero", "Could not find profile ", "Profile "}

\* C20 as claimed: each of the panics (a second registration of a method,
\* ProfileClient of profile 0, of a missing profile, of a profile without
\* credential) is raised inside a call that Dispatch is running, under its
\* deferred recover.
C20_Original ==
    (RaisedPanic /\ last.op \in {"Register", "RegisterNotification", "ProfileClient"})
        => (last.call \in Calls /\ pc[last.call] = "handler")

\* C20 amended: the three panics of ProfileClient are raised in a handler
\* that Dispatch is running and end in Dispatch's recover: a request gets one
\* ReplyWithError with the generic internal-error code and the panic's text
\* as message, a notification gets nothing, the tables and the pool are as
\* before and the goroutine is free again. The panic of a second
\* registration is raised in the caller of Register or RegisterNotification,
\* in no call of Dispatch: nothing recovers it there and no reply is sent.
C20_PanicsContained ==
    /\ []((RaisedPanic /\ last.op = "ProfileClient")
            => /\ last.call \in Calls
               /\ pc[last.call] = "handler"
               /\ rc[last.call].op.kind = "unwind")
    /\ []((RaisedPanic /\ last.op \in {"Register", "RegisterNotification"})
            => (last.call = "none" /\ ~last.fin.done))
    /\ [][\A c \in Calls :
            (pc[c] = "handler" /\ rc[c].op.kind = "unwind" /\ last'.call = c
                /\ IsProfilePanic(rc[c].op.v))
              => /\ last'.op = "panic"
                 /\ last'.fin.done
                 /\ last'.fin.panicked = rc[c].op.v
                 /\ pc'[c] = "idle"
                 /\ ~crashed'
                 /\ router' = router
                 /\ IF rc[c].notif
                    THEN last'.fin.replies = <<>>
                    ELSE /\ Len(last'.fin.replies) = 1
                         /\ last'.fin.replies[1].kind = "error"
                         /\ last'.fin.replies[1].code = CodeInternalError
                         /\ last'.fin.replies[1].message = rc[c].op.v.e.text]_vars

\* ProfileClient(0) in a request handler was answered with the internal error
C20_Witness ==
    /\ RequestEnded
    /\ last.op = "panic"
    /\ last.fin.panicked.kind = "error"
    /\ last.fin.panicked.e.text = <<"profileId must be non-zero">>
    /\ last.fin.replies[1].code = CodeInternalError
====
